---- MODULE Spec2Model ----
(***************************************************************************)
(* RMQService (src/lib/rmq.service.ts): the connection supervisor, the two *)
(* channel setup procedures, the RPC client core (send / notify) and the   *)
(* dispatch / reply core, as one state machine.  One action per handler,   *)
(* callback or resumption point of the event loop; the code between two    *)
(* suspension points runs atomically, as it does on the single thread.     *)
(***************************************************************************)
EXTENDS Integers, Sequences, FiniteSets, TLC

\* ------------------------------------------------------------------ bounds
MaxCalls == 1        \* send / notify calls issued in one run of the whole service
MaxConcurrent == 2   \* calls in flight together in a run of one core alone
MaxConnects == 2     \* connect events of the resilient connection in one run

\* --------------------------------------------------- constants of the code
\* Time is counted in abstract units; the source's value is in milliseconds.
DEFAULT_TIMEOUT == 2
NULL == "NULL"       \* null / undefined of a string-valued slot
NONE == -1           \* undefined of a number-valued slot
REPLY_QUEUE == "amq.rabbitmq.reply-to"
ERROR_NO_ROUTE == "ERROR_NO_ROUTE"
ERROR_NONE_RPC == "ERROR_NONE_RPC"
ERROR_TIMEOUT == "ERROR_TIMEOUT"

Calls == 1..MaxConcurrent
\* The calls a run of the whole service issues.
SysCalls == 1..MaxCalls

\* ------------------------------------------------------------ topic matcher
\* Strings are sequences of one-character strings.
T_ab == <<"a", ".", "b">>
T_x == <<"x">>
Topics == {T_ab, T_x}
\* metadataAccessor.getAllRMQPaths(): the registered route patterns.
getAllRMQPaths == << <<"a", ".", "*">> >>

NonDot(u) == u # <<>> /\ \A i \in 1..Len(u) : u[i] # "."

\* ([^.]+.?)+ : the string literal '([^.]+\.?)+' holds no backslash, so the
\* dot after the class is the regular expression's any-character.
RECURSIVE HashGroups(_)
HashGroups(u) ==
    \E k \in 1..Len(u) :
        /\ NonDot(SubSeq(u, 1, k))
        /\ \/ k = Len(u)
           \/ HashGroups(SubSeq(u, k + 1, Len(u)))
           \/ k + 1 = Len(u)
           \/ (k + 1 < Len(u) /\ HashGroups(SubSeq(u, k + 2, Len(u))))

\* '^' + route.replace(/\*/g, '([^.]+)').replace(/#/g, '([^.]+\.?)+') + '$'
\* matched against the whole topic; every other character of the route is
\* regular-expression text: "." is any character, a letter is itself.
RECURSIVE RegexMatch(_, _)
RegexMatch(p, s) ==
    IF p = <<>> THEN s = <<>>
    ELSE LET h == Head(p)
             t == Tail(p)
         IN  CASE h = "*" ->
                    \E k \in 1..Len(s) :
                        /\ NonDot(SubSeq(s, 1, k))
                        /\ RegexMatch(t, SubSeq(s, k + 1, Len(s)))
               [] h = "#" ->
                    \E k \in 1..Len(s) :
                        /\ HashGroups(SubSeq(s, 1, k))
                        /\ RegexMatch(t, SubSeq(s, k + 1, Len(s)))
               [] h = "." -> s # <<>> /\ RegexMatch(t, Tail(s))
               [] OTHER -> s # <<>> /\ Head(s) = h /\ RegexMatch(t, Tail(s))

RouteMatches(route, topic) == route = topic \/ RegexMatch(route, topic)

\* this.routes.find(...): the first matching route, undefined when none.
getRouteByTopic(rs, topic) ==
    LET hits == {i \in 1..Len(rs) : RouteMatches(rs[i], topic)}
    IN  IF hits = {} THEN <<>>
        ELSE rs[CHOOSE i \in hits : \A j \in hits : i <= j]

\* ------------------------------------------------------------ configuration
\* IRMQServiceOptions as the constructor receives it (line 53): the fields
\* the modelled code reads.  A chain is the sequence of its stages' names.
Configs ==
    { [queueName |-> q, messagesTimeout |-> mt, middleware |-> mw, intercepters |-> ic] :
        q \in {NULL, "work"}, mt \in {NONE, 1},
        mw \in {<<>>, <<"m1">>}, ic \in {<<>>, <<"i1">>} }

VARIABLES
    options,        \* this.options
    conn,           \* this.server: "none" | "down" | "up" | "closed"
    epoch,          \* connect events so far
    lastEvent,      \* the last event the connection emitted: "none" | "connect" | "disconnect"
    isConnected,    \* this.isConnected
    isInitialized,  \* this.isInitialized
    initPc,         \* onModuleInit: "start" | "waiting" | "done"
    listeners,      \* responseEmitter: listeners attached per outcome kind
    clientConsumer, \* the reply-queue consumer is registered on the send channel
    clientResolved, \* createClientChannel's promise is resolved
    subPc,          \* the next step of the subscribe channel's setup
    subTopo,        \* what the subscribe channel has established on the current connection
    subResolved,    \* createSubscriptionChannel's promise is resolved
    routes,         \* this.routes
    calls,          \* the send / notify calls
    jobs,           \* the inbound messages of the work-queue consumer
    replyQ,         \* replies at the broker, addressed to the reply queue
    sentReplies,    \* every sendToQueue the subscribe channel has published
    acks            \* every ack the subscribe channel has sent

vars == <<options, conn, epoch, lastEvent, isConnected, isInitialized, initPc,
          listeners, clientConsumer, clientResolved, subPc, subTopo, subResolved,
          routes, calls, jobs, replyQ, sentReplies, acks>>

connVars == <<conn, epoch, lastEvent, isConnected, listeners>>
setupVars == <<clientConsumer, clientResolved, subPc, subTopo, subResolved, routes>>
initVars == <<isInitialized, initPc>>
msgVars == <<calls, jobs, replyQ, sentReplies, acks>>

NoTopo == [exchange |-> FALSE, prefetch |-> FALSE, queue |-> FALSE,
           bound |-> {}, consumer |-> FALSE]

\* ResponseEmitterResult
Kinds == {"success", "error", "ack"}

\* ------------------------------------------------------------------ promise
\* The promise of one send call (line 99): resolve and reject settle a
\* pending promise and do nothing to a settled one.
NoError == [type |-> NULL, msg |-> NULL, timeout |-> NONE, topic |-> <<>>]
Pending == [st |-> "pending", val |-> NULL, err |-> NoError]
Resolved(v) == [st |-> "resolved", val |-> v, err |-> NoError]
Rejected(e) == [st |-> "rejected", val |-> NULL, err |-> e]
Settle(cur, new) == IF cur.st = "pending" THEN new ELSE cur

\* new RMQError(message, ERROR_TYPE.TRANSPORT)
TransportError(m) == [type |-> "TRANSPORT", msg |-> m, timeout |-> NONE, topic |-> <<>>]
\* new RMQError(`${ERROR_TIMEOUT}: ${timeout} while sending to ${topic}`, TRANSPORT)
TimeoutError(t, topic) == [type |-> "TRANSPORT", msg |-> ERROR_TIMEOUT, timeout |-> t, topic |-> topic]

\* ------------------------------------------------------------------ payloads
\* A message body: no bytes, the JSON text of a value, or bytes that are not
\* JSON.
EmptyContent == [bytes |-> "empty", val |-> NULL]
Garbage == [bytes |-> "garbage", val |-> NULL]
\* Buffer.from(JSON.stringify(v))
JSONstringify(v) == [bytes |-> "json", val |-> v]
\* content.toString() is a non-empty string
NonEmpty(content) == content.bytes # "empty"
\* JSON.parse(content.toString()) returns a value; it throws otherwise.
Parses(content) == content.bytes = "json"
JSONparse(content) == content.val

\* errorService.buildError(error): the reply headers of an error, none for null.
buildError(error) ==
    IF error = NoError THEN [xerror |-> NULL, xtype |-> NULL]
    ELSE [xerror |-> error.msg, xtype |-> error.type]
\* errorService.errorHandler(msg): the error decoded from the reply headers.
errorHandler(m) == [type |-> m.xtype, msg |-> m.xerror, timeout |-> NONE, topic |-> <<>>]
\* msg.properties?.headers?.['-x-error']
HasErrorMarker(m) == m.xerror # NULL

AppError == [type |-> "RMQ", msg |-> "APP_ERROR", timeout |-> NONE, topic |-> <<>>]

\* A reply message on the reply queue; NoReply stands for none.
NoReply == [corr |-> 0, xerror |-> NULL, xtype |-> NULL, content |-> EmptyContent]

\* -------------------------------------------------------------------- calls
NoCall == [kind |-> "none", pc |-> "new", topic |-> <<>>, opt |-> NONE,
           corr |-> 0, replyTo |-> NULL, timeout |-> NONE, elapsed |-> 0,
           waited |-> 0, timer |-> "none", waiter |-> FALSE,
           outcome |-> Pending, handled |-> 0, settles |-> 0, ext |-> FALSE,
           reply |-> NoReply]

\* ------------------------------------------------------------- inbound jobs
NoJob == [pc |-> "none", topic |-> <<>>, replyTo |-> NULL, corr |-> 0,
          route |-> <<>>, applied |-> <<>>, res |-> NULL, error |-> NoError,
          stage |-> 0, copies |-> 0, kind |-> NULL, dseq |-> 0, eseq |-> 0]

Init ==
    /\ options \in Configs
    /\ conn = "none"
    /\ epoch = 0
    /\ lastEvent = "none"
    /\ isConnected = FALSE
    /\ isInitialized = FALSE
    /\ initPc = "start"
    /\ listeners = [k \in Kinds |-> 0]
    /\ clientConsumer = FALSE
    /\ clientResolved = FALSE
    /\ subPc = "idle"
    /\ subTopo = NoTopo
    /\ subResolved = FALSE
    /\ routes = <<>>
    /\ calls = [c \in Calls |-> NoCall]
    /\ jobs = [c \in Calls |-> NoJob]
    /\ replyQ = {}
    /\ sentReplies = {}
    /\ acks = {}

\* ------------------------------------------------------ reply-pipeline hooks
\* attachEmitters(): one more listener per outcome kind.
attachEmitters(ls) == [k \in Kinds |-> ls[k] + 1]
\* detachEmitters(): responseEmitter.removeAllListeners().
detachEmitters(ls) == [k \in Kinds |-> 0]

\* ------------------------------------------------------ connection supervisor
\* onModuleInit -> init(): the connection manager is created, the two event
\* handlers are registered and both channel wrappers are created; the
\* promise of init() is then awaited.
InitStart ==
    /\ initPc = "start"
    /\ conn = "none"
    /\ conn' = "down"
    /\ initPc' = "waiting"
    /\ UNCHANGED <<options, epoch, lastEvent, isConnected, listeners, isInitialized>>
    /\ UNCHANGED setupVars
    /\ UNCHANGED msgVars

\* The connection manager connects and emits CONNECT_EVENT; the handler of
\* lines 74-77 runs, and both channel wrappers start their setup on the new
\* connection.
ConnectEvent ==
    /\ conn = "down"
    /\ epoch < MaxConnects
    /\ conn' = "up"
    /\ epoch' = epoch + 1
    /\ lastEvent' = "connect"
    /\ isConnected' = TRUE
    /\ listeners' = attachEmitters(listeners)
    /\ subPc' = "assertExchange"
    /\ UNCHANGED <<options, clientConsumer, clientResolved, subTopo, subResolved, routes>>
    /\ UNCHANGED initVars
    /\ UNCHANGED msgVars

\* A faulty variant: the disconnect handler fails every pending send.
PendingAfterDisconnectEvent_Rejected(cs) ==
    [c \in Calls |->
        IF cs[c].waiter
        THEN [cs[c] EXCEPT !.waiter = FALSE,
                           !.outcome = Settle(@, Rejected(TransportError("DISCONNECTED")))]
        ELSE cs[c]]

\* What the disconnect handler does to the calls and their waiters: nothing;
\* it touches responseEmitter only, never sendResponseEmitter.
PendingAfterDisconnectEvent(cs) == cs

\* The connection is lost, or an attempt to connect fails: the manager emits
\* DISCONNECT_EVENT and the handler of lines 78-83 runs.  The channels of the
\* lost connection are gone with their consumers.
DisconnectEvent ==
    /\ conn \in {"up", "down"}
    /\ conn' = "down"
    /\ lastEvent' = "disconnect"
    /\ isConnected' = FALSE
    /\ listeners' = detachEmitters(listeners)
    /\ clientConsumer' = FALSE
    /\ subPc' = "idle"
    /\ subTopo' = NoTopo
    /\ calls' = PendingAfterDisconnectEvent(calls)
    /\ UNCHANGED <<options, epoch, clientResolved, subResolved, routes>>
    /\ UNCHANGED initVars
    /\ UNCHANGED <<jobs, replyQ, sentReplies, acks>>

\* healthCheck()
healthCheck == isConnected

\* ------------------------------------------------------------ channel setup
\* A channel wrapper publishes what was handed to it once its setup function
\* has returned on a live connection.
ClientReady == conn = "up" /\ clientConsumer
SubReady == conn = "up" /\ subPc \in {"assertQueue", "bind", "consume", "done"}

\* createClientChannel's setup: the reply queue is consumed, then resolve().
ClientSetup ==
    /\ conn = "up"
    /\ ~clientConsumer
    /\ clientConsumer' = TRUE
    /\ clientResolved' = TRUE
    /\ UNCHANGED <<options, subPc, subTopo, subResolved, routes>>
    /\ UNCHANGED connVars
    /\ UNCHANGED initVars
    /\ UNCHANGED msgVars

\* A faulty variant: the work queue is set up on the first setup only.
ListenConfigured_FirstSetupOnly(opts) == opts.queueName # NULL /\ ~subResolved

\* if (this.options.queueName) this.listen(channel)
ListenConfigured(opts) == opts.queueName # NULL

\* createSubscriptionChannel's setup, first await: assertExchange.
SubAssertExchange ==
    /\ conn = "up"
    /\ subPc = "assertExchange"
    /\ subTopo' = [subTopo EXCEPT !.exchange = TRUE]
    /\ subPc' = "prefetch"
    /\ UNCHANGED <<options, clientConsumer, clientResolved, subResolved, routes>>
    /\ UNCHANGED connVars
    /\ UNCHANGED initVars
    /\ UNCHANGED msgVars

\* Second await: prefetch.  The setup then calls listen() without awaiting
\* it (listen runs to its own first await, assertQueue), logs and resolves.
SubPrefetch ==
    /\ conn = "up"
    /\ subPc = "prefetch"
    /\ subTopo' = [subTopo EXCEPT !.prefetch = TRUE]
    /\ subPc' = IF ListenConfigured(options) THEN "assertQueue" ELSE "done"
    /\ subResolved' = TRUE
    /\ UNCHANGED <<options, clientConsumer, clientResolved, routes>>
    /\ UNCHANGED connVars
    /\ UNCHANGED initVars
    /\ UNCHANGED msgVars

\* listen(): assertQueue returns; bindRMQRoutes sets this.routes and issues
\* one bindQueue per route without awaiting any; consume is issued behind
\* them on the same channel.
ListenAssertQueue ==
    /\ conn = "up"
    /\ subPc = "assertQueue"
    /\ subTopo' = [subTopo EXCEPT !.queue = TRUE]
    /\ routes' = getAllRMQPaths
    /\ subPc' = "bind"
    /\ UNCHANGED <<options, clientConsumer, clientResolved, subResolved>>
    /\ UNCHANGED connVars
    /\ UNCHANGED initVars
    /\ UNCHANGED msgVars

\* The broker has bound the queue to every route.
ListenBound ==
    /\ conn = "up"
    /\ subPc = "bind"
    /\ subTopo' = [subTopo EXCEPT !.bound = {routes[i] : i \in 1..Len(routes)}]
    /\ subPc' = "consume"
    /\ UNCHANGED <<options, clientConsumer, clientResolved, subResolved, routes>>
    /\ UNCHANGED connVars
    /\ UNCHANGED initVars
    /\ UNCHANGED msgVars

\* The work-queue consumer is registered (noAck: false).
ListenConsume ==
    /\ conn = "up"
    /\ subPc = "consume"
    /\ subTopo' = [subTopo EXCEPT !.consumer = TRUE]
    /\ subPc' = "done"
    /\ UNCHANGED <<options, clientConsumer, clientResolved, subResolved, routes>>
    /\ UNCHANGED connVars
    /\ UNCHANGED initVars
    /\ UNCHANGED msgVars

\* onModuleInit resumes after await this.init(): both channel promises are
\* resolved; the barrier is set.
InitDone ==
    /\ initPc = "waiting"
    /\ clientResolved
    /\ subResolved
    /\ isInitialized' = TRUE
    /\ initPc' = "done"
    /\ UNCHANGED options
    /\ UNCHANGED connVars
    /\ UNCHANGED setupVars
    /\ UNCHANGED msgVars

\* A faulty variant: disconnect() clears the health flag.
HealthAfterDisconnectCall_Clears(h) == FALSE

\* What disconnect() does to the health flag: nothing (lines 144-150).
HealthAfterDisconnectCall(h) == h

\* disconnect(): the reply-pipeline listeners and every waiter are removed,
\* both channels and the connection are closed; a closed connection manager
\* emits no further event.
Disconnect ==
    /\ conn \in {"up", "down"}
    /\ conn' = "closed"
    /\ listeners' = detachEmitters(listeners)
    /\ calls' = [c \in Calls |-> [calls[c] EXCEPT !.waiter = FALSE]]
    /\ isConnected' = HealthAfterDisconnectCall(isConnected)
    /\ clientConsumer' = FALSE
    /\ subPc' = "idle"
    /\ subTopo' = NoTopo
    /\ UNCHANGED <<options, epoch, lastEvent, clientResolved, subResolved, routes>>
    /\ UNCHANGED initVars
    /\ UNCHANGED <<jobs, replyQ, sentReplies, acks>>

\* ---------------------------------------------------------- RPC client core
\* A faulty variant: the instance's default wins over the call's option.
EffectiveTimeout_InstanceFirst(opt, instanceDefault) ==
    IF instanceDefault # NONE THEN instanceDefault
    ELSE IF opt # NONE THEN opt
    ELSE DEFAULT_TIMEOUT

\* options?.timeout ?? this.options.messagesTimeout ?? DEFAULT_TIMEOUT
EffectiveTimeout(opt, instanceDefault) ==
    IF opt # NONE THEN opt
    ELSE IF instanceDefault # NONE THEN instanceDefault
    ELSE DEFAULT_TIMEOUT

\* getUniqId(): a fresh identifier per call.
getUniqId(c) == c

\* A faulty variant: the call does not look at the barrier.
BarrierOpen_Unchecked == TRUE

\* initializationCheck(): returns once this.isInitialized holds, and until
\* then sleeps INITIALIZATION_STEP_DELAY and looks again.
BarrierOpen == isInitialized

\* What send puts in the publish properties for the reply path.
SendReplyTo == REPLY_QUEUE
\* A faulty variant: notify names the reply queue as send does.
NotifyReplyTo_AsSend == REPLY_QUEUE

\* What notify puts in the publish properties for the reply path: nothing.
NotifyReplyTo == NULL
NotifyCorrelationId == 0

CanCall(c) ==
    /\ calls[c].kind = "none"
    /\ IF c = 1 THEN TRUE ELSE calls[c - 1].kind # "none"

\* send(topic, message, options) is called: the executor starts and awaits
\* initializationCheck().
CallSend(c, topic, opt) ==
    /\ CanCall(c)
    /\ calls' = [calls EXCEPT ![c] = [NoCall EXCEPT !.kind = "send", !.pc = "wait",
                                         !.topic = topic, !.opt = opt]]
    /\ UNCHANGED <<options, jobs, replyQ, sentReplies, acks>>
    /\ UNCHANGED connVars
    /\ UNCHANGED setupVars
    /\ UNCHANGED initVars

\* notify(topic, message, options) is called and awaits initializationCheck().
CallNotify(c, topic) ==
    /\ CanCall(c)
    /\ calls' = [calls EXCEPT ![c] = [NoCall EXCEPT !.kind = "notify", !.pc = "wait",
                                         !.topic = topic]]
    /\ UNCHANGED <<options, jobs, replyQ, sentReplies, acks>>
    /\ UNCHANGED connVars
    /\ UNCHANGED setupVars
    /\ UNCHANGED initVars

\* A faulty variant: the publish is issued with no listener registered.
SendRegister_PublishFirst(r, c) ==
    [r EXCEPT !.corr = getUniqId(c), !.replyTo = SendReplyTo,
              !.timeout = EffectiveTimeout(r.opt, options.messagesTimeout),
              !.timer = "armed", !.waiter = FALSE, !.pc = "publishing"]

\* send, lines 101-125, run in one turn of the event loop once the barrier
\* is passed: the timer is started, the once-listener is registered under the
\* correlation id and the publish is handed to the send channel.
SendRegister(r, c) ==
    [r EXCEPT !.corr = getUniqId(c), !.replyTo = SendReplyTo,
              !.timeout = EffectiveTimeout(r.opt, options.messagesTimeout),
              !.timer = "armed", !.waiter = TRUE, !.pc = "publishing"]

\* notify, lines 132-136: the publish is handed to the send channel.
NotifyPublish(r) ==
    [r EXCEPT !.corr = NotifyCorrelationId, !.replyTo = NotifyReplyTo,
              !.pc = "publishing"]

PassBarrier(c) ==
    /\ calls[c].pc = "wait"
    /\ BarrierOpen
    /\ calls' = [calls EXCEPT ![c] =
                    IF calls[c].kind = "send"
                    THEN SendRegister(calls[c], c)
                    ELSE NotifyPublish(calls[c])]
    /\ UNCHANGED <<options, jobs, replyQ, sentReplies, acks>>
    /\ UNCHANGED connVars
    /\ UNCHANGED setupVars
    /\ UNCHANGED initVars

\* The send channel has published the message: the awaited publish
\* completes.  For notify that completes the call.
PublishDone(c) ==
    /\ calls[c].pc = "publishing"
    /\ ClientReady
    /\ calls' = [calls EXCEPT ![c] =
                    [calls[c] EXCEPT !.pc = "published",
                        !.outcome = IF calls[c].kind = "notify"
                                    THEN Resolved(NULL) ELSE calls[c].outcome]]
    /\ UNCHANGED <<options, jobs, replyQ, sentReplies, acks>>
    /\ UNCHANGED connVars
    /\ UNCHANGED setupVars
    /\ UNCHANGED initVars

\* The awaited publish rejects.  In send the rejection is that of the async
\* executor, which nothing observes; in notify it is the call's own.
PublishFail(c) ==
    /\ calls[c].pc = "publishing"
    /\ calls' = [calls EXCEPT ![c] =
                    [calls[c] EXCEPT !.pc = "pubfailed",
                        !.outcome = IF calls[c].kind = "notify"
                                    THEN Rejected([NoError EXCEPT !.type = "PUBLISH"])
                                    ELSE calls[c].outcome]]
    /\ UNCHANGED <<options, jobs, replyQ, sentReplies, acks>>
    /\ UNCHANGED connVars
    /\ UNCHANGED setupVars
    /\ UNCHANGED initVars

\* One unit of time passes: for every running timer, and for every call
\* waiting on the barrier.
Tick ==
    /\ \E c \in Calls :
          \/ (calls[c].timer = "armed" /\ calls[c].elapsed < calls[c].timeout)
          \/ (calls[c].pc = "wait" /\ calls[c].waited < 1)
    /\ calls' = [c \in Calls |->
                    IF calls[c].timer = "armed" /\ calls[c].elapsed < calls[c].timeout
                    THEN [calls[c] EXCEPT !.elapsed = @ + 1]
                    ELSE IF calls[c].pc = "wait" /\ calls[c].waited < 1
                    THEN [calls[c] EXCEPT !.waited = @ + 1]
                    ELSE calls[c]]
    /\ UNCHANGED <<options, jobs, replyQ, sentReplies, acks>>
    /\ UNCHANGED connVars
    /\ UNCHANGED setupVars
    /\ UNCHANGED initVars

\* setTimeout's callback runs no earlier than its delay.
TimerDue(r) == r.timer = "armed" /\ r.elapsed >= r.timeout

SettleCall(r, new) ==
    [r EXCEPT !.outcome = Settle(r.outcome, new),
              !.settles = IF Settle(r.outcome, new) # r.outcome THEN @ + 1 ELSE @]

\* The timer's callback, lines 103-105.
TimerFire(c) ==
    /\ TimerDue(calls[c])
    /\ calls' = [calls EXCEPT ![c] =
                    SettleCall([calls[c] EXCEPT !.timer = "fired"],
                               Rejected(TimeoutError(calls[c].timeout, calls[c].topic)))]
    /\ UNCHANGED <<options, jobs, replyQ, sentReplies, acks>>
    /\ UNCHANGED connVars
    /\ UNCHANGED setupVars
    /\ UNCHANGED initVars

\* ------------------------------------------------------------ reply listener
\* The once-listener of lines 106-118 on reply m.  It returns the call's
\* record after the listener has run; the listener is already removed.
ReplyListener(r, m) ==
    LET r0 == [r EXCEPT !.waiter = FALSE, !.handled = @ + 1, !.reply = m,
                        !.timer = IF @ = "armed" THEN "cleared" ELSE @]
        r1 == IF HasErrorMarker(m) THEN SettleCall(r0, Rejected(errorHandler(m))) ELSE r0
    IN  IF NonEmpty(m.content)
        THEN IF Parses(m.content)
             THEN SettleCall(r1, Resolved(JSONparse(m.content)))
             ELSE r1
        ELSE SettleCall(r1, Rejected(TransportError(ERROR_NONE_RPC)))

\* A faulty variant: a reply is handed to every registered waiter.
WaitersOf_Any(k) == {c \in Calls : calls[c].waiter}

\* The calls whose listener is registered under correlation id k.
WaitersOf(k) == {c \in Calls : calls[c].waiter /\ calls[c].corr = k}

\* A responder outside this process, bound to the exchange, answers a
\* published request on its reply-to address.
ExternalReply(c, hdr, content) ==
    /\ calls[c].kind = "send"
    /\ calls[c].pc = "published"
    /\ ~calls[c].ext
    /\ calls' = [calls EXCEPT ![c].ext = TRUE]
    /\ replyQ' = replyQ \cup {[corr |-> calls[c].corr, xerror |-> hdr.xerror,
                               xtype |-> hdr.xtype, content |-> content]}
    /\ UNCHANGED <<options, jobs, sentReplies, acks>>
    /\ UNCHANGED connVars
    /\ UNCHANGED setupVars
    /\ UNCHANGED initVars

\* The reply-queue consumer of lines 197-199 receives m (noAck) and emits it
\* under its correlation id.
DeliverReply(m) ==
    /\ m \in replyQ
    /\ ClientReady
    /\ replyQ' = replyQ \ {m}
    /\ calls' = [c \in Calls |->
                    IF c \in WaitersOf(m.corr) THEN ReplyListener(calls[c], m)
                    ELSE calls[c]]
    /\ UNCHANGED <<options, jobs, sentReplies, acks>>
    /\ UNCHANGED connVars
    /\ UNCHANGED setupVars
    /\ UNCHANGED initVars

\* ------------------------------------------------------- dispatch/reply core
\* intercept() with no stage returns at once; sendToQueue is then handed to
\* the subscribe channel.  Otherwise the first stage is awaited.
StartReply(j, res, error, n) ==
    [j EXCEPT !.res = res, !.error = error, !.copies = n, !.stage = 1,
              !.pc = IF Len(options.intercepters) = 0 THEN "sending" ELSE "intercept"]

\* The place of the next requestEmitter.emit among all of them.
EmitSeq == Cardinality({d \in Calls : jobs[d].eseq > 0}) + 1
\* The place of the next delivery to the work-queue consumer among all.
DeliverySeq == Cardinality({d \in Calls : jobs[d].dseq > 0}) + 1

\* A faulty variant: the message is emitted to its route as delivered.
StartMiddleware_Unchained(j, route) ==
    [j EXCEPT !.route = route, !.stage = 1, !.pc = "handler", !.eseq = EmitSeq]

\* useMiddleware() with no stage returns the message; requestEmitter.emit
\* follows.  Otherwise the first stage is awaited.
StartMiddleware(j, route) ==
    IF Len(options.middleware) = 0
    THEN [j EXCEPT !.route = route, !.stage = 1, !.pc = "handler", !.eseq = EmitSeq]
    ELSE [j EXCEPT !.route = route, !.stage = 1, !.pc = "middleware"]

\* The consumer callback of lines 218-227 on the message of call c.
Consume(j, route) ==
    IF route # <<>>
    THEN StartMiddleware(j, route)
    ELSE StartReply(j, "", TransportError(ERROR_NO_ROUTE), 1)

\* The broker delivers a published message to the work-queue consumer.
Deliver(c) ==
    /\ conn = "up"
    /\ subTopo.consumer
    /\ calls[c].pc = "published"
    /\ jobs[c].pc = "none"
    /\ jobs' = [jobs EXCEPT ![c] =
                   Consume([NoJob EXCEPT !.topic = calls[c].topic,
                                         !.replyTo = calls[c].replyTo,
                                         !.corr = calls[c].corr,
                                         !.dseq = DeliverySeq],
                           getRouteByTopic(routes, calls[c].topic))]
    /\ UNCHANGED <<options, calls, replyQ, sentReplies, acks>>
    /\ UNCHANGED connVars
    /\ UNCHANGED setupVars
    /\ UNCHANGED initVars

\* A middleware stage's transform returns: the loop of lines 283-285 goes
\* on, and after the last stage the message is emitted to its route.
MiddlewareStep(c) ==
    /\ jobs[c].pc = "middleware"
    /\ jobs' = [jobs EXCEPT ![c] =
                   [jobs[c] EXCEPT
                       !.applied = Append(@, options.middleware[jobs[c].stage]),
                       !.stage = @ + 1,
                       !.eseq = IF jobs[c].stage = Len(options.middleware)
                                THEN EmitSeq ELSE @,
                       !.pc = IF jobs[c].stage = Len(options.middleware)
                              THEN "handler" ELSE "middleware"]]
    /\ UNCHANGED <<options, calls, replyQ, sentReplies, acks>>
    /\ UNCHANGED connVars
    /\ UNCHANGED setupVars
    /\ UNCHANGED initVars

\* A middleware stage's transform throws: the consumer callback's promise
\* rejects and nothing else runs for the message.
MiddlewareFail(c) ==
    /\ jobs[c].pc = "middleware"
    /\ jobs' = [jobs EXCEPT ![c].pc = "dead"]
    /\ UNCHANGED <<options, calls, replyQ, sentReplies, acks>>
    /\ UNCHANGED connVars
    /\ UNCHANGED setupVars
    /\ UNCHANGED initVars

\* this.ack(msg): the subscribe channel wrapper acknowledges on its current
\* channel and does nothing when it has none.
AckSent == conn = "up"

\* The listeners of lines 247-255 on an outcome of kind k, n of them attached.
OnOutcome(j, k, n) ==
    IF n = 0 THEN [j EXCEPT !.pc = "lost", !.kind = k]
    ELSE CASE k = "success" -> StartReply([j EXCEPT !.kind = k], "v", NoError, n)
           [] k = "error" -> StartReply([j EXCEPT !.kind = k], "", AppError, n)
           [] OTHER -> [j EXCEPT !.kind = k,
                                 !.pc = IF AckSent THEN "acked" ELSE "ackdropped"]

\* The handler of the route, an external collaborator, emits its outcome on
\* responseEmitter.
HandlerOutcome(c, k) ==
    /\ jobs[c].pc = "handler"
    /\ jobs' = [jobs EXCEPT ![c] = OnOutcome(jobs[c], k, listeners[k])]
    /\ acks' = IF k = "ack" /\ listeners[k] > 0 /\ AckSent THEN acks \cup {c} ELSE acks
    /\ UNCHANGED <<options, calls, replyQ, sentReplies>>
    /\ UNCHANGED connVars
    /\ UNCHANGED setupVars
    /\ UNCHANGED initVars

\* An interceptor stage returns: the loop of lines 293-295 goes on, and after
\* the last stage sendToQueue is handed to the subscribe channel.
InterceptStep(c) ==
    /\ jobs[c].pc = "intercept"
    /\ jobs' = [jobs EXCEPT ![c] =
                   [jobs[c] EXCEPT
                       !.stage = @ + 1,
                       !.pc = IF jobs[c].stage = Len(options.intercepters)
                              THEN "sending" ELSE "intercept"]]
    /\ UNCHANGED <<options, calls, replyQ, sentReplies, acks>>
    /\ UNCHANGED connVars
    /\ UNCHANGED setupVars
    /\ UNCHANGED initVars

\* An interceptor stage throws: reply()'s promise rejects, which nothing
\* observes, and sendToQueue is never called.
InterceptFail(c) ==
    /\ jobs[c].pc = "intercept"
    /\ jobs' = [jobs EXCEPT ![c].pc = "dead"]
    /\ UNCHANGED <<options, calls, replyQ, sentReplies, acks>>
    /\ UNCHANGED connVars
    /\ UNCHANGED setupVars
    /\ UNCHANGED initVars

\* The message reply() hands to sendToQueue, lines 260-265.
ReplyMessage(j) ==
    [corr |-> j.corr, xerror |-> buildError(j.error).xerror,
     xtype |-> buildError(j.error).xtype, content |-> JSONstringify(j.res)]

\* The subscribe channel publishes the reply to msg.properties.replyTo.  A
\* message without a reply-to address reaches no queue.
ReplyPublish(c) ==
    /\ jobs[c].pc = "sending"
    /\ SubReady
    /\ jobs' = [jobs EXCEPT ![c].pc = "replied"]
    /\ sentReplies' = sentReplies \cup {[job |-> c, to |-> jobs[c].replyTo,
                                         msg |-> ReplyMessage(jobs[c])]}
    /\ replyQ' = IF jobs[c].replyTo = REPLY_QUEUE
                 THEN replyQ \cup {ReplyMessage(jobs[c])}
                 ELSE replyQ
    /\ UNCHANGED <<options, calls, acks>>
    /\ UNCHANGED connVars
    /\ UNCHANGED setupVars
    /\ UNCHANGED initVars

\* sendToQueue rejects on a closed channel wrapper.
ReplyFail(c) ==
    /\ jobs[c].pc = "sending"
    /\ conn = "closed"
    /\ jobs' = [jobs EXCEPT ![c].pc = "dead"]
    /\ UNCHANGED <<options, calls, replyQ, sentReplies, acks>>
    /\ UNCHANGED connVars
    /\ UNCHANGED setupVars
    /\ UNCHANGED initVars

\* ------------------------------------------------------------ specification
TimeoutOptions == {NONE, 0, 1}
ReplyHeaders == {buildError(NoError), buildError(AppError)}
ReplyContents == {EmptyContent, JSONstringify("v"), Garbage}

Next ==
    \/ InitStart
    \/ ConnectEvent
    \/ DisconnectEvent
    \/ ClientSetup
    \/ SubAssertExchange
    \/ SubPrefetch
    \/ ListenAssertQueue
    \/ ListenBound
    \/ ListenConsume
    \/ InitDone
    \/ Disconnect
    \/ Tick
    \/ \E c \in SysCalls, t \in Topics, o \in TimeoutOptions : CallSend(c, t, o)
    \/ \E c \in SysCalls, t \in Topics : CallNotify(c, t)
    \/ \E c \in Calls : PassBarrier(c)
    \/ \E c \in Calls : PublishDone(c)
    \/ \E c \in Calls : PublishFail(c)
    \/ \E c \in Calls : TimerFire(c)
    \/ \E c \in Calls, h \in ReplyHeaders, b \in ReplyContents : ExternalReply(c, h, b)
    \/ \E m \in replyQ : DeliverReply(m)
    \/ \E c \in Calls : Deliver(c)
    \/ \E c \in Calls : MiddlewareStep(c)
    \/ \E c \in Calls : MiddlewareFail(c)
    \/ \E c \in Calls, k \in Kinds : HandlerOutcome(c, k)
    \/ \E c \in Calls : InterceptStep(c)
    \/ \E c \in Calls : InterceptFail(c)
    \/ \E c \in Calls : ReplyPublish(c)
    \/ \E c \in Calls : ReplyFail(c)

Spec == Init /\ [][Next]_vars

\* The event loop runs every callback that is due: the setup steps of a live
\* connection, the barrier's polling timer, the timers of send, the reply
\* consumer, the steps of a message under dispatch.  Connection events, calls,
\* failures and the answers of other processes are the environment's.
Fairness ==
    /\ WF_vars(InitStart)
    /\ WF_vars(ClientSetup)
    /\ WF_vars(SubAssertExchange)
    /\ WF_vars(SubPrefetch)
    /\ WF_vars(ListenAssertQueue)
    /\ WF_vars(ListenBound)
    /\ WF_vars(ListenConsume)
    /\ WF_vars(InitDone)
    /\ WF_vars(Tick)
    /\ \A c \in SysCalls : WF_vars(PassBarrier(c))
    /\ \A c \in SysCalls : WF_vars(TimerFire(c))

FairSpec == Init /\ [][Next]_vars /\ Fairness

\* ------------------------------------------------------------------- claims
IsSend(c) == calls[c].kind = "send"
IsNotify(c) == calls[c].kind = "notify"
\* The call has passed the initialization barrier.
Passed(c) == calls[c].pc \in {"publishing", "published", "pubfailed"}
\* The dispatch of the inbound message has ended: no step of it is left.
Ended(c) == jobs[c].pc \in {"replied", "acked", "dead", "lost", "ackdropped"}
RepliesOf(c) == {s \in sentReplies : s.job = c}
IsTimeout(o) == o.st = "rejected" /\ o.err.msg = ERROR_TIMEOUT

\* C1: for every send call, once the reply for its correlation id has reached
\* its listener or its timer has fired (in either order, or only one of
\* them), the call's promise has been settled exactly once.
C1_SettledExactlyOnce ==
    \A c \in Calls :
        (IsSend(c) /\ (calls[c].handled > 0 \/ calls[c].timer = "fired"))
            => (calls[c].settles = 1 /\ calls[c].outcome.st # "pending")

\* C2: with the broker reachable throughout, a message published by send and
\* consumed with no matching route is answered: once its dispatch has ended,
\* an error reply carrying the no-route error has been published to its
\* reply-to address under its correlation id (the reply the caller's send
\* is to reject with).
C2_NoRouteReplied ==
    \A c \in Calls :
        (/\ IsSend(c)
         /\ epoch = 1 /\ conn = "up"
         /\ jobs[c].pc # "none" /\ jobs[c].route = <<>>
         /\ Ended(c))
            => \E s \in RepliesOf(c) :
                  /\ s.to = calls[c].replyTo
                  /\ s.msg.corr = calls[c].corr
                  /\ s.msg.xerror = ERROR_NO_ROUTE

\* C3: a send call that has passed the barrier and is not settled still has
\* its timer running, so that it settles also when no further reply is
\* delivered: whatever the publish did and whatever reply was delivered.
C3_UnsettledSendHasTimer ==
    \A c \in Calls :
        (IsSend(c) /\ Passed(c) /\ calls[c].outcome.st = "pending")
            => calls[c].timer = "armed"

\* C4: every inbound message whose dispatch has ended has had its terminal
\* action: a reply published to its reply-to address, or an acknowledgment.
C4_TerminalAction ==
    \A c \in Calls :
        Ended(c) => (RepliesOf(c) # {} \/ c \in acks)

\* C5: while the barrier is unset a send or notify call that was issued
\* waits: it has not published and has not failed; no call is past the
\* barrier while the barrier is unset; and a waiting call proceeds to its
\* publish once the barrier is set.
C5_BarrierHoldsCalls ==
    /\ [](\A c \in Calls :
            /\ (~isInitialized /\ calls[c].kind # "none")
                   => (calls[c].pc = "wait" /\ calls[c].outcome = Pending)
            /\ Passed(c) => isInitialized)
    /\ \A c \in SysCalls :
          (calls[c].pc = "wait" /\ isInitialized) ~> Passed(c)

\* A call waited on the unset barrier for a while and has then published.
C5_Witness ==
    \E c \in Calls : calls[c].waited = 1 /\ calls[c].pc = "published"

\* C6: healthCheck() is true exactly when the last connection event was a
\* connect, and only the two event handlers change it.
C6_HealthFollowsEvents ==
    /\ [](healthCheck = (lastEvent = "connect"))
    /\ [][(isConnected' # isConnected) => (ConnectEvent \/ DisconnectEvent)]_vars

\* disconnect() was called after an outage and a recovery, with a call in
\* flight: the health flag still shows the last event, a connect.
C6_Witness ==
    /\ epoch = 2 /\ lastEvent = "connect" /\ conn = "closed" /\ healthCheck
    /\ \E c \in Calls : Passed(c)

\* The topology a complete setup establishes on a connection.
ExpectedTopology ==
    IF options.queueName # NULL
    THEN [exchange |-> TRUE, prefetch |-> TRUE, queue |-> TRUE,
          bound |-> {getAllRMQPaths[i] : i \in 1..Len(getAllRMQPaths)},
          consumer |-> TRUE]
    ELSE [exchange |-> TRUE, prefetch |-> TRUE, queue |-> FALSE,
          bound |-> {}, consumer |-> FALSE]
Established == conn = "up" /\ clientConsumer /\ subTopo = ExpectedTopology

\* C7: after a reconnect both setups run again on their own and, unless the
\* connection goes away again, re-establish the topology of the first setup;
\* a setup that has run to its end has established exactly that topology.
C7_ReestablishedAfterReconnect ==
    /\ [](conn = "up" /\ subPc = "done" => subTopo = ExpectedTopology)
    /\ (conn = "up" /\ epoch >= 2) ~> (Established \/ conn # "up")

\* Second connection, queue configured, everything established again.
C7_Witness ==
    epoch = 2 /\ options.queueName # NULL /\ Established /\ subPc = "done"

\* C8: a notify call has no waiter and no timer, publishes with no
\* correlation id and no reply-to address and is complete exactly when its
\* publish is; whatever the dispatch core sends for its message is addressed
\* to no queue, and no reply reaches the reply queue or the caller.
C8_NotifyHasNoReply ==
    \A c \in Calls :
        IsNotify(c) =>
            /\ ~calls[c].waiter
            /\ calls[c].timer = "none"
            /\ calls[c].corr = 0
            /\ calls[c].replyTo = NULL
            /\ calls[c].handled = 0
            /\ (calls[c].outcome = Resolved(NULL)) = (calls[c].pc = "published")
            /\ \A s \in RepliesOf(c) : s.to = NULL
            /\ \A m \in replyQ : m.corr # 0 /\ ~IsNotify(m.corr)

\* A handler matched a notify message and returned a value; the reply
\* pipeline has run for it.
C8_Witness ==
    \E c \in Calls :
        /\ IsNotify(c)
        /\ jobs[c].pc = "replied"
        /\ jobs[c].route # <<>>
        /\ jobs[c].res = "v"

\* C9: a reply handled before the timeout decides the outcome: rejected with
\* the decoded error when it carries the error marker; else rejected with the
\* no-content error when its payload is empty; else resolved with the
\* deserialized payload.
C9_ReplyPriority ==
    \A c \in Calls :
        (IsSend(c) /\ calls[c].timer = "cleared") =>
            calls[c].outcome =
                IF calls[c].reply.xerror # NULL
                THEN Rejected(errorHandler(calls[c].reply))
                ELSE IF calls[c].reply.content = EmptyContent
                THEN Rejected(TransportError(ERROR_NONE_RPC))
                ELSE Resolved(JSONparse(calls[c].reply.content))

\* The timeout a send call is to use: its own option, else the instance's
\* default, else the global default.
C10_Timeout(c) ==
    IF calls[c].opt # NONE THEN calls[c].opt
    ELSE IF options.messagesTimeout # NONE THEN options.messagesTimeout
    ELSE DEFAULT_TIMEOUT

\* C10: no timer runs while the call waits on the barrier; the timer of a
\* call past the barrier is set to the effective timeout; it fires only once
\* that much time has passed since the barrier, and then the send is rejected
\* with the timeout error naming the topic and that timeout; no other path
\* yields a timeout error; and a running timer does fire unless a reply
\* reaches the listener first.
C10_TimeoutRejects ==
    /\ [](\A c \in Calls :
            IsSend(c) =>
                /\ calls[c].pc = "wait" => (calls[c].timer = "none" /\ calls[c].elapsed = 0)
                /\ Passed(c) => calls[c].timeout = C10_Timeout(c)
                /\ calls[c].timer = "fired" =>
                      /\ calls[c].elapsed >= C10_Timeout(c)
                      /\ calls[c].outcome =
                             Rejected(TimeoutError(C10_Timeout(c), calls[c].topic))
                /\ IsTimeout(calls[c].outcome) => calls[c].timer = "fired")
    /\ \A c \in SysCalls :
          (IsSend(c) /\ calls[c].timer = "armed")
              ~> (calls[c].timer = "fired" \/ calls[c].handled > 0)

\* A call waited on the barrier, then timed out on the instance's default
\* while its publish was still outstanding.
C10_Witness ==
    \E c \in Calls :
        /\ IsSend(c)
        /\ calls[c].waited = 1
        /\ calls[c].opt = NONE /\ options.messagesTimeout = 1
        /\ calls[c].pc = "publishing"
        /\ calls[c].timer = "fired"
        /\ IsTimeout(calls[c].outcome)

\* C11: the connect and disconnect handlers leave every call, waiter and
\* timer as they are; a send is rejected only by its own timer or by what a
\* delivered reply says, and a reply with a JSON payload and no error marker
\* that reaches the listener before the timer fires resolves the send with
\* that payload, also when the connection was lost and found again meanwhile.
C11_DisconnectKeepsPending ==
    /\ [][(DisconnectEvent \/ ConnectEvent) => calls' = calls]_vars
    /\ [](\A c \in Calls :
            IsSend(c) =>
                /\ calls[c].outcome.st = "rejected" =>
                      \/ /\ calls[c].timer = "fired"
                         /\ calls[c].outcome =
                                Rejected(TimeoutError(calls[c].timeout, calls[c].topic))
                      \/ /\ calls[c].handled > 0
                         /\ calls[c].outcome \in
                                {Rejected(errorHandler(calls[c].reply)),
                                 Rejected(TransportError(ERROR_NONE_RPC))}
                /\ (/\ calls[c].timer = "cleared"
                    /\ ~HasErrorMarker(calls[c].reply)
                    /\ Parses(calls[c].reply.content))
                      => calls[c].outcome = Resolved(JSONparse(calls[c].reply.content)))

\* A send published on the first connection has come through a disconnect
\* and a reconnect: the second connection is up, its reply consumer is not
\* registered yet, and the send is pending with its waiter and its running
\* timer, its reply waiting at the broker.
C11_Witness ==
    \E c \in Calls :
        /\ IsSend(c) /\ calls[c].pc = "published"
        /\ epoch = 2 /\ conn = "up" /\ lastEvent = "connect" /\ ~clientConsumer
        /\ calls[c].waiter /\ calls[c].timer = "armed" /\ calls[c].outcome = Pending
        /\ \E m \in replyQ : m.corr = calls[c].corr /\ Parses(m.content)

\* ------------------------------------------------------ topic matcher alone
\* getRouteByTopic over every route pattern and routing key of bounded size.
MaxSegments == 3     \* segments of a route pattern
MaxTopicLen == 5     \* characters of a routing key

Letters == {"a", "b"}
Tokens == Letters \cup {"*", "#"}

\* The pattern whose segments are the tokens of ts, joined by dots.
RECURSIVE Join(_)
Join(ts) == IF Len(ts) = 1 THEN <<ts[1]>> ELSE <<ts[1], ".">> \o Join(Tail(ts))

RoutePatterns == {Join(ts) : ts \in UNION {[1..k -> Tokens] : k \in 1..MaxSegments}}
\* Routing keys with no empty segment.
RoutingKeys ==
    {t \in UNION {[1..k -> Letters \cup {"."}] : k \in 1..MaxTopicLen} :
        /\ t[1] # "." /\ t[Len(t)] # "."
        /\ \A i \in 1..(Len(t) - 1) : ~(t[i] = "." /\ t[i + 1] = ".")}

\* The service after its first setup has run to its end with the queue
\* configured and pattern r registered; a message with routing key t has
\* been delivered to the work-queue consumer, which is about to look its
\* route up (line 220).
MatchInit ==
    /\ options \in {o \in Configs : o.queueName # NULL /\ o.messagesTimeout = NONE
                                    /\ o.middleware = <<>> /\ o.intercepters = <<>>}
    /\ conn = "up"
    /\ epoch = 1
    /\ lastEvent = "connect"
    /\ isConnected = TRUE
    /\ isInitialized = TRUE
    /\ initPc = "done"
    /\ listeners = [k \in Kinds |-> 1]
    /\ clientConsumer = TRUE
    /\ clientResolved = TRUE
    /\ subPc = "done"
    /\ subResolved = TRUE
    /\ \E r \in RoutePatterns :
          /\ routes = <<r>>
          /\ subTopo = [exchange |-> TRUE, prefetch |-> TRUE, queue |-> TRUE,
                        bound |-> {r}, consumer |-> TRUE]
    /\ calls = [c \in Calls |-> NoCall]
    /\ \E t \in RoutingKeys :
          jobs = [c \in Calls |-> IF c = 1 THEN [NoJob EXCEPT !.pc = "lookup", !.topic = t]
                                  ELSE NoJob]
    /\ replyQ = {}
    /\ sentReplies = {}
    /\ acks = {}

\* const route = this.getRouteByTopic(msg.fields.routingKey)
RouteLookup(c) ==
    /\ jobs[c].pc = "lookup"
    /\ jobs' = [jobs EXCEPT ![c] = [jobs[c] EXCEPT !.pc = "looked",
                                       !.route = getRouteByTopic(routes, jobs[c].topic)]]
    /\ UNCHANGED <<options, calls, replyQ, sentReplies, acks>>
    /\ UNCHANGED connVars
    /\ UNCHANGED setupVars
    /\ UNCHANGED initVars

MatchNext == \E c \in Calls : RouteLookup(c)

MatchSpec == MatchInit /\ [][MatchNext]_vars

\* The dot-delimited segments of a string, empty ones included.
RECURSIVE Segments(_)
Segments(u) ==
    IF \A i \in 1..Len(u) : u[i] # "." THEN <<u>>
    ELSE LET d == CHOOSE i \in 1..Len(u) : u[i] = "." /\ \A j \in 1..(i - 1) : u[j] # "."
         IN  <<SubSeq(u, 1, d - 1)>> \o Segments(SubSeq(u, d + 1, Len(u)))

\* Matching segment by segment: a literal segment matches the equal segment,
\* "*" one non-empty segment, "#" one or more non-empty segments.
RECURSIVE SegmentwiseMatch(_, _)
SegmentwiseMatch(ps, ts) ==
    IF ps = <<>> THEN ts = <<>>
    ELSE IF ts = <<>> THEN FALSE
    ELSE CASE Head(ps) = <<"*">> ->
                 Head(ts) # <<>> /\ SegmentwiseMatch(Tail(ps), Tail(ts))
           [] Head(ps) = <<"#">> ->
                 \E k \in 1..Len(ts) :
                     /\ \A i \in 1..k : ts[i] # <<>>
                     /\ SegmentwiseMatch(Tail(ps), SubSeq(ts, k + 1, Len(ts)))
           [] OTHER -> Head(ts) = Head(ps) /\ SegmentwiseMatch(Tail(ps), Tail(ts))

\* C12: the route lookup finds the registered pattern exactly when the
\* routing key matches it segment by segment; in particular a pattern without
\* "#" is found only for a routing key with as many segments as the pattern.
C12_SegmentwiseMatch ==
    \A c \in Calls :
        jobs[c].pc = "looked" =>
            /\ (jobs[c].route # <<>>) =
                   SegmentwiseMatch(Segments(routes[1]), Segments(jobs[c].topic))
            /\ (jobs[c].route # <<>> /\ \A i \in 1..Len(routes[1]) : routes[1][i] # "#")
                   => Len(Segments(jobs[c].topic)) = Len(Segments(routes[1]))

\* C13: every registered waiter belongs to a send call that is not settled.
C13_WaitersAreUnsettled ==
    \A c \in Calls :
        calls[c].waiter => (IsSend(c) /\ calls[c].outcome.st = "pending")

\* C14: while the first connection lasts, the barrier is set only when the
\* first setup of both channels is complete: the reply consumer registered,
\* the exchange asserted, prefetch set and, with a queue name configured,
\* the work queue asserted, bound to every route and consumed.
C14_BarrierAfterFullSetup ==
    (isInitialized /\ epoch = 1 /\ lastEvent = "connect" /\ conn = "up")
        => (clientConsumer /\ subTopo = ExpectedTopology)

\* ------------------------------------------- connection events in any order
\* CONNECT_EVENT arrives with no DISCONNECT_EVENT since the last one, and the
\* handler of lines 74-77 runs once more: init() is public and registers the
\* handlers on a further connection when it is called again, and
\* responseEmitter is one emitter of the module, shared by every instance of
\* the service.
RepeatedConnectEvent ==
    /\ conn = "up"
    /\ epoch < MaxConnects
    /\ epoch' = epoch + 1
    /\ lastEvent' = "connect"
    /\ isConnected' = TRUE
    /\ listeners' = attachEmitters(listeners)
    /\ UNCHANGED <<options, conn>>
    /\ UNCHANGED setupVars
    /\ UNCHANGED initVars
    /\ UNCHANGED msgVars

EventNext == Next \/ RepeatedConnectEvent

EventSpec == Init /\ [][EventNext]_vars

\* C15: at most one listener is attached per outcome kind, and one handler
\* outcome runs the reply pipeline at most once.
C15_OneListenerPerKind ==
    /\ \A k \in Kinds : listeners[k] <= 1
    /\ \A c \in Calls : jobs[c].copies <= 1

\* ------------------------------------------------------ RPC client core alone
\* The service after its first setup, no queue name configured: the barrier
\* is set and the reply consumer is registered.  Several sends are in flight
\* together.
RpcInit ==
    /\ options \in {o \in Configs : o.queueName = NULL
                                    /\ o.middleware = <<>> /\ o.intercepters = <<>>}
    /\ conn = "up"
    /\ epoch = 1
    /\ lastEvent = "connect"
    /\ isConnected = TRUE
    /\ isInitialized = TRUE
    /\ initPc = "done"
    /\ listeners = [k \in Kinds |-> 1]
    /\ clientConsumer = TRUE
    /\ clientResolved = TRUE
    /\ subPc = "done"
    /\ subResolved = TRUE
    /\ subTopo = [NoTopo EXCEPT !.exchange = TRUE, !.prefetch = TRUE]
    /\ routes = <<>>
    /\ calls = [c \in Calls |-> NoCall]
    /\ jobs = [c \in Calls |-> NoJob]
    /\ replyQ = {}
    /\ sentReplies = {}
    /\ acks = {}

\* A correlation id no call of this process has registered.
UnknownCorrelationId == MaxConcurrent + 1

\* A message reaches the reply queue under a correlation id that no send of
\* this process uses: an answer to a call of an earlier run, or a responder's
\* mistake.
StrayReply(hdr, content) ==
    /\ \A m \in replyQ : m.corr # UnknownCorrelationId
    /\ replyQ' = replyQ \cup {[corr |-> UnknownCorrelationId, xerror |-> hdr.xerror,
                               xtype |-> hdr.xtype, content |-> content]}
    /\ UNCHANGED <<options, calls, jobs, sentReplies, acks>>
    /\ UNCHANGED connVars
    /\ UNCHANGED setupVars
    /\ UNCHANGED initVars

RpcNext ==
    \/ Tick
    \/ \E c \in Calls, o \in TimeoutOptions : CallSend(c, T_x, o)
    \/ \E c \in Calls : PassBarrier(c)
    \/ \E c \in Calls : PublishDone(c)
    \/ \E c \in Calls : PublishFail(c)
    \/ \E c \in Calls : TimerFire(c)
    \/ \E c \in Calls, h \in ReplyHeaders, b \in ReplyContents : ExternalReply(c, h, b)
    \/ \E h \in ReplyHeaders, b \in ReplyContents : StrayReply(h, b)
    \/ \E m \in replyQ : DeliverReply(m)

RpcSpec == RpcInit /\ [][RpcNext]_vars

\* C16: the delivery of a reply with correlation id k leaves every call
\* that has no waiter registered under k exactly as it was: its promise, its
\* timer and its waiter; with no waiter under k nothing changes but the
\* reply being gone.
C16_ReplyReachesOnlyItsWaiter ==
    [][\A m \in replyQ :
          (m \notin replyQ') =>
              \A c \in Calls :
                  (~(calls[c].waiter /\ calls[c].corr = m.corr)) => calls'[c] = calls[c]]_vars

\* One send has been resolved by its reply while another, whose reply is
\* still on its way, keeps its waiter and its running timer.
C16_Witness ==
    \E c, d \in Calls :
        /\ c # d
        /\ IsSend(c) /\ calls[c].handled = 1 /\ calls[c].outcome = Resolved("v")
        /\ IsSend(d) /\ calls[d].ext /\ calls[d].waiter /\ calls[d].timer = "armed"
        /\ calls[d].handled = 0 /\ calls[d].outcome = Pending
        /\ \A m \in replyQ : m.corr = calls[d].corr

\* C17: on a connection that has been up throughout, once the dispatch of a
\* message whose handler gave an outcome has ended, exactly one terminal
\* action has been taken, the one of the outcome:
\* success, one reply with the result and no error headers and no
\* acknowledgment; error, one reply with the error's headers and no
\* acknowledgment; the ack signal, one acknowledgment and no reply.
C17_OneTerminalAction ==
    \A c \in Calls :
        (/\ jobs[c].kind # NULL /\ Ended(c)
         /\ epoch = 1 /\ conn = "up" /\ lastEvent = "connect") =>
            CASE jobs[c].kind = "success" ->
                    /\ jobs[c].copies = 1 /\ c \notin acks
                    /\ \E s \in RepliesOf(c) :
                          /\ RepliesOf(c) = {s}
                          /\ s.msg.content = JSONstringify("v")
                          /\ ~HasErrorMarker(s.msg)
              [] jobs[c].kind = "error" ->
                    /\ jobs[c].copies = 1 /\ c \notin acks
                    /\ \E s \in RepliesOf(c) :
                          /\ RepliesOf(c) = {s}
                          /\ s.msg.xerror = AppError.msg
              [] OTHER -> c \in acks /\ RepliesOf(c) = {}

\* ------------------------------------------------------- dispatch core alone
\* Chains of none, one and two stages.
DispatchConfigs ==
    { [queueName |-> "work", messagesTimeout |-> NONE, middleware |-> mw, intercepters |-> ic] :
        mw \in {<<>>, <<"m1">>, <<"m1", "m2">>}, ic \in {<<>>, <<"i1">>} }

\* The service after its first setup has run to its end with the queue
\* configured: the work queue is bound and consumed.
DispatchInit ==
    /\ options \in DispatchConfigs
    /\ conn = "up"
    /\ epoch = 1
    /\ lastEvent = "connect"
    /\ isConnected = TRUE
    /\ isInitialized = TRUE
    /\ initPc = "done"
    /\ listeners = [k \in Kinds |-> 1]
    /\ clientConsumer = TRUE
    /\ clientResolved = TRUE
    /\ subPc = "done"
    /\ subResolved = TRUE
    /\ routes = getAllRMQPaths
    /\ subTopo = [exchange |-> TRUE, prefetch |-> TRUE, queue |-> TRUE,
                  bound |-> {getAllRMQPaths[i] : i \in 1..Len(getAllRMQPaths)},
                  consumer |-> TRUE]
    /\ calls = [c \in Calls |-> NoCall]
    /\ jobs = [c \in Calls |-> NoJob]
    /\ replyQ = {}
    /\ sentReplies = {}
    /\ acks = {}

\* Messages are published by notify and consumed from the work queue; the
\* stages of their chains return in any order.
DispatchNext ==
    \/ \E c \in Calls, t \in Topics : CallNotify(c, t)
    \/ \E c \in Calls : PassBarrier(c)
    \/ \E c \in Calls : PublishDone(c)
    \/ \E c \in Calls : Deliver(c)
    \/ \E c \in Calls : MiddlewareStep(c)
    \/ \E c \in Calls : MiddlewareFail(c)
    \/ \E c \in Calls, k \in Kinds : HandlerOutcome(c, k)
    \/ \E c \in Calls : InterceptStep(c)
    \/ \E c \in Calls : InterceptFail(c)
    \/ \E c \in Calls : ReplyPublish(c)

DispatchSpec == DispatchInit /\ [][DispatchNext]_vars

\* C18: two messages that were both emitted to their handlers were emitted
\* in the order in which the consumer received them.
C18_DispatchInDeliveryOrder ==
    \A a, b \in Calls :
        (jobs[a].eseq > 0 /\ jobs[b].eseq > 0 /\ jobs[a].dseq < jobs[b].dseq)
            => jobs[a].eseq < jobs[b].eseq

\* C19: a message is emitted to its handler only with every stage of the
\* configured chain applied once, in configuration order, each to the output
\* of the one before; while the chain runs, the stages applied are the
\* chain's first ones in order; a message with no matching route has no
\* stage applied and is not emitted.
C19_MiddlewareChainApplied ==
    \A c \in Calls :
        /\ jobs[c].eseq > 0 => (jobs[c].applied = options.middleware /\ jobs[c].route # <<>>)
        /\ jobs[c].pc = "middleware" =>
              /\ jobs[c].eseq = 0
              /\ jobs[c].applied = SubSeq(options.middleware, 1, jobs[c].stage - 1)
        /\ (jobs[c].pc # "none" /\ jobs[c].route = <<>>) =>
              (jobs[c].applied = <<>> /\ jobs[c].eseq = 0)
        /\ jobs[c].pc = "none" => jobs[c].applied = <<>>

\* A message went through a chain of two stages and reached its handler,
\* and a message without a route was answered with no stage applied.
C19_Witness ==
    \E c, d \in Calls :
        /\ jobs[c].pc = "handler" /\ jobs[c].applied = <<"m1", "m2">>
        /\ jobs[d].pc = "replied" /\ jobs[d].route = <<>> /\ jobs[d].applied = <<>>

\* C20 as stated: every send whose publish has been issued has a registered
\* waiter or is settled.
C20_PublishedHasWaiterOrSettled ==
    \A c \in Calls :
        (IsSend(c) /\ Passed(c)) => (calls[c].waiter \/ calls[c].outcome.st # "pending")

\* C20, amended: the step of a send that issues the publish has started the
\* timer and registered the waiter; and a send whose publish has been issued
\* has a timer and has a registered waiter unless a reply has already been
\* handed to its waiter or disconnect() has been called.
C20_WaiterBeforePublish ==
    /\ [][\A c \in Calls :
             (IsSend(c) /\ calls[c].pc = "wait" /\ calls'[c].pc # "wait")
                 => (/\ calls'[c].pc = "publishing"
                     /\ calls'[c].waiter
                     /\ calls'[c].timer = "armed"
                     /\ \A m \in replyQ' : m.corr # calls'[c].corr)]_vars
    /\ [](\A c \in Calls :
            (IsSend(c) /\ Passed(c)) =>
                /\ calls[c].timer # "none"
                /\ (calls[c].waiter \/ calls[c].handled > 0 \/ conn = "closed"))

\* A reply to a published send is at the reply queue, about to reach the
\* consumer, and the send's waiter is registered and its timer running.
C20_Witness ==
    \E c \in Calls :
        /\ IsSend(c) /\ calls[c].pc = "published"
        /\ calls[c].waiter /\ calls[c].timer = "armed" /\ calls[c].outcome = Pending
        /\ \E m \in replyQ : m.corr = calls[c].corr
        /\ ClientReady

====
